---- MODULE Spec2Model ----
(***************************************************************************)
(* Rx.VirtualTimeScheduler (src/core/concurrency/virtualtimescheduler.js). *)
(*                                                                         *)
(* The scheduler is single threaded.  Its code is re-entered only through  *)
(* the actions it invokes: while an item's action runs, the action may     *)
(* call any method of the scheduler.  The model keeps the call stack of    *)
(* run loops (start / advanceTo) explicitly: each frame is either about to *)
(* execute one iteration of its do-while loop ("loop") or is waiting for   *)
(* the action it invoked to return ("action").  Methods are called either  *)
(* by the top-level caller (empty stack) or by the running action.         *)
(***************************************************************************)
EXTENDS Integers, Sequences, FiniteSets

\* ------------------------------------------------------------------ bounds
\* number of method calls made by the top-level caller and the actions together
MaxCalls == 5
\* total number of items ever scheduled (periodic ticks included)
MaxItems == 3
\* largest absolute time passed to scheduleAbsoluteWithState / advanceTo / sleep
MaxTime == 2
\* largest relative delay passed to scheduleRelativeWithState / advanceBy / sleep
MaxDelay == 1
\* largest period passed to schedulePeriodicWithState
MaxPeriod == 2

\* a relative time of -1 is what puts a due time before the clock
Delays == (0 - 1)..MaxDelay
Times == 0..MaxTime
Periods == 1..MaxPeriod

VARIABLES
    clock,      \* this.clock
    isEnabled,  \* this.isEnabled
    queue,      \* this.queue: the item ids in priority order
    items,      \* every ScheduledItem created so far, by scheduling order
    chain,      \* the SchedulePeriodicRecursive helper (at most one is created)
    stack,      \* call stack of run loops; the last element is the innermost
    log,        \* history: the invocations made so far
    ev,         \* history: what the last step did
    hist        \* history: how many calls, and of which kinds, have been made

vars == <<clock, isEnabled, queue, items, chain, stack, log, ev, hist>>

null == 0

\* ------------------------------------------------- external collaborators
\* Time Comparator supplied to the constructor (this.comparer)
comparer(a, b) == IF a < b THEN -1 ELSE IF a > b THEN 1 ELSE 0

\* Scheduler.prototype.add of the concrete scheduler: time + delta
add(a, b) == a + b

\* IndexedItem.compareTo of the PriorityQueue: due time, then insertion order
isHigherPriority(its, i, j) ==
    LET c == comparer(its[i].dueTime, its[j].dueTime)
    IN  c < 0 \/ (c = 0 /\ i < j)

\* PriorityQueue.enqueue
enqueue(q, its, i) ==
    LET before == SelectSeq(q, LAMBDA j : isHigherPriority(its, j, i))
        after  == SelectSeq(q, LAMBDA j : ~isHigherPriority(its, j, i))
    IN  before \o <<i>> \o after

\* PriorityQueue.remove(item)
remove(q, i) == SelectSeq(q, LAMBDA j : j # i)

\* PriorityQueue.peek / dequeue
peek(q) == Head(q)
dequeue(q) == Tail(q)

\* ScheduledItem.isCancelled: disposable.isDisposed
isCancelled(its, i) == its[i].cancelled

\* --------------------------------------------------------------- getNext
RECURSIVE getNextDropsTwo(_, _)
getNextDropsTwo(q, its) ==
    IF Len(q) > 0
    THEN IF isCancelled(its, peek(q))
         THEN getNextDropsTwo(IF Len(q) > 1 THEN dequeue(dequeue(q)) ELSE dequeue(q), its)
         ELSE q
    ELSE q

getNextKeepsCancelled(q, its) == q

getNextSweeps(q, its) == SelectSeq(q, LAMBDA i : ~isCancelled(its, i))

\* getNext, lines 187-198: the queue once the cancelled items at its front
\* have been dequeued; the item returned is its head, or null when empty.
RECURSIVE getNext(_, _)
getNext(q, its) ==
    IF Len(q) > 0
    THEN IF isCancelled(its, peek(q)) THEN getNext(dequeue(q), its) ELSE q
    ELSE q

nextOf(q) == IF Len(q) > 0 THEN peek(q) ELSE null

\* ------------------------------------------------------ run loop helpers
startTakesNonNegative(its, next) == next # null /\ comparer(its[next].dueTime, 0) >= 0

\* start, line 95
startTakes(its, next) == next # null

advanceTakesStrict(its, next, time) ==
    next # null /\ comparer(its[next].dueTime, time) < 0

\* advanceTo, line 134
advanceTakes(its, next, time) ==
    next # null /\ comparer(its[next].dueTime, time) <= 0

loopClockStays(c, due) == c

loopClockToDue(c, due) == due

\* start lines 96-98, advanceTo lines 135-137
loopClock(c, due) == IF comparer(due, c) > 0 THEN due ELSE c

exitClockStays(op, c, time) == c

\* advanceTo line 143 (start has no such line)
exitClock(op, c, time) == IF op = "start" THEN c ELSE time

advanceToIsNoopNever(c, time) == FALSE

\* advanceTo lines 123, 127; advanceBy lines 155, 159
advanceToIsNoop(c, time) == comparer(c, time) = 0

\* advanceTo line 124; advanceBy line 156
advanceToThrows(c, time) == comparer(c, time) > 0

sleepThrowsStrict(c, dt) == comparer(c, dt) > 0

\* sleep line 174
sleepThrows(c, dt) == comparer(c, dt) >= 0

sleepClockDelta(c, time) == time

\* sleep lines 172, 178
sleepClock(c, time) == add(c, time)

runAtDelta(c, dueTime) == dueTime

\* scheduleRelativeWithState line 68
runAt(c, dueTime) == add(c, dueTime)

\* ------------------------------------------------------------- bookkeeping
Top == stack[Len(stack)]
Pop == SubSeq(stack, 1, Len(stack) - 1)

\* a method can be called by the top-level caller or by the running action
CanCall == hist.calls < MaxCalls /\ IF stack = <<>> THEN TRUE ELSE Top.pc = "action"

Event(op, arg, out, stopped) ==
    [op |-> op, arg |-> arg, out |-> out, stopped |-> stopped]

\* the event of a step that the items, the queue or the log already tell
Quiet == Event("step", 0, "ok", FALSE)

Item(dueTime, tick, state) ==
    [dueTime |-> dueTime, cancelled |-> FALSE, tick |-> tick, state |-> state]

\* an activation of start / advanceTo.  History kept with it: the clock (c0)
\* and the number of invocations (l0) at the call, whether stop() or sleep()
\* was called during it, and the queue as it was at the first such stop()
Frame(op, time) ==
    [op |-> op, time |-> time, pc |-> "loop", item |-> null, stopped |-> FALSE,
     c0 |-> clock, l0 |-> Len(log), slept |-> FALSE, pend |-> <<>>]

Range(s) == {s[k] : k \in DOMAIN s}

Init ==
    /\ clock = 0
    /\ isEnabled = FALSE
    /\ queue = <<>>
    /\ items = <<>>
    /\ chain = [exists |-> FALSE, c0 |-> 0, period |-> 0, cancelled |-> FALSE]
    /\ stack = <<>>
    /\ log = <<>>
    /\ ev = Event("new", 0, "ok", FALSE)
    /\ hist = [calls |-> 0, relOnly |-> TRUE, nonNeg |-> TRUE, calm |-> TRUE]


\* -------------------------------------------------------------- scheduling
\* scheduleAbsoluteWithState, lines 222-231: a new ScheduledItem is enqueued
scheduledItems(its, dueTime, tick, state) == Append(its, Item(dueTime, tick, state))

scheduledQueueLeftOut(q, its, dueTime, tick, state) == q

scheduledQueue(q, its, dueTime, tick, state) ==
    enqueue(q, scheduledItems(its, dueTime, tick, state), Len(its) + 1)

ScheduleAbsoluteWithState(dueTime) ==
    /\ CanCall
    /\ Len(items) < MaxItems
    /\ items' = scheduledItems(items, dueTime, FALSE, 0)
    /\ queue' = scheduledQueue(queue, items, dueTime, FALSE, 0)
    /\ ev' = Quiet
    /\ hist' = [hist EXCEPT !.calls = @ + 1, !.relOnly = FALSE]
    /\ UNCHANGED <<clock, isEnabled, chain, stack, log>>

\* scheduleRelativeWithState, lines 67-70
ScheduleRelativeWithState(dueTime) ==
    /\ CanCall
    /\ Len(items) < MaxItems
    /\ items' = scheduledItems(items, runAt(clock, dueTime), FALSE, 0)
    /\ queue' = scheduledQueue(queue, items, runAt(clock, dueTime), FALSE, 0)
    /\ ev' = Quiet
    /\ hist' = [hist EXCEPT !.calls = @ + 1, !.nonNeg = hist.nonNeg /\ dueTime >= 0]
    /\ UNCHANGED <<clock, isEnabled, chain, stack, log>>

\* si.disposable.dispose(): the cancellation handle returned at line 230.
\* The handle of an item that has left the queue sets a flag nothing reads
\* any more (the item is unreachable from the scheduler), so only the handles
\* of queued items are modelled.
Cancel(i) ==
    /\ CanCall
    /\ i \in Range(queue)
    /\ ~items[i].tick
    /\ items' = [items EXCEPT ![i].cancelled = TRUE]
    /\ ev' = Quiet
    /\ hist' = [hist EXCEPT !.calls = @ + 1, !.relOnly = FALSE]
    /\ UNCHANGED <<clock, isEnabled, queue, chain, stack, log>>

\* schedulePeriodicWithState, lines 53-56: SchedulePeriodicRecursive.start()
\* schedules the first tick one period from now, with the initial state 0
SchedulePeriodicWithState(period) ==
    /\ CanCall
    /\ ~chain.exists
    /\ Len(items) < MaxItems
    /\ chain' = [exists |-> TRUE, c0 |-> clock, period |-> period, cancelled |-> FALSE]
    /\ items' = scheduledItems(items, runAt(clock, period), TRUE, 0)
    /\ queue' = scheduledQueue(queue, items, runAt(clock, period), TRUE, 0)
    /\ ev' = Quiet
    /\ hist' = [hist EXCEPT !.calls = @ + 1, !.relOnly = FALSE]
    /\ UNCHANGED <<clock, isEnabled, stack, log>>

\* the cancellation handle of the periodic chain
CancelPeriodic ==
    /\ CanCall
    /\ chain.exists
    /\ ~chain.cancelled
    /\ chain' = [chain EXCEPT !.cancelled = TRUE]
    /\ ev' = Quiet
    /\ hist' = [hist EXCEPT !.calls = @ + 1, !.relOnly = FALSE, !.calm = FALSE]
    /\ UNCHANGED <<clock, isEnabled, queue, items, stack, log>>

\* ------------------------------------------------------------ clock methods
\* throw new Error(argumentOutOfRange): nothing is assigned before the throw;
\* the exception leaves every run loop on the call stack (none catches it)
Throws(op, arg, time) ==
    /\ ev' = Event(op, arg, "OutOfRange", FALSE)
    /\ stack' = <<>>
    /\ hist' = [hist EXCEPT !.calls = @ + 1, !.relOnly = FALSE, !.calm = FALSE]
    /\ UNCHANGED <<clock, isEnabled, queue, items, chain, log>>

\* a call that returns without assigning anything
Returns(op, arg, time, out) ==
    /\ ev' = Event(op, arg, out, FALSE)
    /\ hist' = [hist EXCEPT !.calls = @ + 1, !.relOnly = hist.relOnly /\ op = "start"]
    /\ UNCHANGED <<clock, isEnabled, queue, items, chain, stack, log>>

\* isEnabled = true and the do-while loop is entered
Enters(op, arg, time) ==
    /\ isEnabled' = TRUE
    /\ stack' = Append(stack, Frame(op, time))
    /\ ev' = Event(op, arg, "enter", FALSE)
    /\ hist' = [hist EXCEPT !.calls = @ + 1, !.relOnly = hist.relOnly /\ op = "start"]
    /\ UNCHANGED <<clock, queue, items, chain, log>>

StartNoGuard ==
    /\ CanCall
    /\ Enters("start", 0, 0)

\* start, lines 89-92
Start ==
    /\ CanCall
    /\ IF isEnabled THEN Returns("start", 0, 0, "reentrant") ELSE Enters("start", 0, 0)

\* stop, lines 112-114
Stop ==
    /\ CanCall
    /\ isEnabled' = FALSE
    /\ stack' = [k \in DOMAIN stack |->
                    IF stack[k].stopped THEN stack[k]
                    ELSE [stack[k] EXCEPT !.stopped = TRUE, !.pend = queue]]
    /\ ev' = Event("stop", 0, "ok", FALSE)
    /\ hist' = [hist EXCEPT !.calls = @ + 1, !.relOnly = FALSE, !.calm = FALSE]
    /\ UNCHANGED <<clock, queue, items, chain, log>>

\* advanceTo, lines 121-131
advanceTo(op, arg, time) ==
    IF advanceToThrows(clock, time) THEN Throws(op, arg, time)
    ELSE IF advanceToIsNoop(clock, time) THEN Returns(op, arg, time, "noop")
    ELSE IF isEnabled THEN Returns(op, arg, time, "reentrant")
    ELSE Enters(op, arg, time)

AdvanceTo(time) ==
    /\ CanCall
    /\ advanceTo("advanceTo", time, time)

\* advanceBy, lines 153-163: the checks of lines 156 and 159, then the call
\* advanceTo(dt) of line 162, whose own checks (lines 124, 127) have the same
\* outcome; the loop that is entered is advanceTo's
AdvanceBy(time) ==
    /\ CanCall
    /\ add(clock, time) <= MaxTime
    /\ LET dt == add(clock, time) IN
       IF advanceToThrows(clock, dt) THEN Throws("advanceBy", time, dt)
       ELSE IF advanceToIsNoop(clock, dt) THEN Returns("advanceBy", time, dt, "noop")
       ELSE IF isEnabled THEN Returns("advanceBy", time, dt, "reentrant")
       ELSE Enters("advanceTo", dt, dt)

\* sleep, lines 171-179
Sleep(time) ==
    /\ CanCall
    /\ add(clock, time) <= MaxTime
    /\ LET dt == sleepClock(clock, time) IN
       IF sleepThrows(clock, dt) THEN Throws("sleep", time, dt)
       ELSE /\ clock' = dt
            /\ stack' = [k \in DOMAIN stack |-> [stack[k] EXCEPT !.slept = TRUE]]
            /\ ev' = Event("sleep", time, "ok", FALSE)
            /\ hist' = [hist EXCEPT !.calls = @ + 1, !.relOnly = FALSE, !.calm = FALSE]
            /\ UNCHANGED <<isEnabled, queue, items, chain, log>>

\* ------------------------------------------------------------- the run loop
InAction == IF stack = <<>> THEN FALSE ELSE Top.pc = "action"

InLoop == IF stack = <<>> THEN FALSE ELSE Top.pc = "loop"

\* next = this.getNext(), and the test of lines 95 / 134
Next0 == nextOf(getNext(queue, items))

Takes ==
    IF Top.op = "start" THEN startTakes(items, Next0)
    ELSE advanceTakes(items, Next0, Top.time)

Invocation(i, c, tick, state) ==
    [item |-> i, clock |-> c, cancelled |-> isCancelled(items, i),
     tick |-> tick, state |-> state]

LoopInvokeKeepsItem ==
    /\ InLoop
    /\ Takes
    /\ ~items[Next0].tick
    /\ clock' = loopClock(clock, items[Next0].dueTime)
    /\ queue' = getNext(queue, items)
    /\ stack' = [stack EXCEPT ![Len(stack)].pc = "action", ![Len(stack)].item = Next0]
    /\ log' = Append(log, Invocation(Next0, clock', FALSE, 0))
    /\ ev' = Quiet
    /\ UNCHANGED <<isEnabled, items, chain, hist>>

\* one iteration that invokes an item scheduled by a caller: the clock moves
\* to the due time (lines 96-98, 135-137), next.invoke() removes the item
\* from the queue (line 225) and the caller's action starts (line 226)
LoopInvoke ==
    /\ InLoop
    /\ Takes
    /\ ~items[Next0].tick
    /\ clock' = loopClock(clock, items[Next0].dueTime)
    /\ queue' = remove(getNext(queue, items), Next0)
    /\ stack' = [stack EXCEPT ![Len(stack)].pc = "action", ![Len(stack)].item = Next0]
    /\ log' = Append(log, Invocation(Next0, clock', FALSE, 0))
    /\ ev' = Quiet
    /\ UNCHANGED <<isEnabled, items, chain, hist>>

\* one iteration that invokes a tick of the periodic chain: unless the chain
\* is cancelled, the tick applies the user's action (state + 1) and schedules
\* the next tick one period after its own due time; it then returns
LoopTick ==
    /\ InLoop
    /\ Takes
    /\ items[Next0].tick
    /\ clock' = loopClock(clock, items[Next0].dueTime)
    /\ IF chain.cancelled
       THEN /\ queue' = remove(getNext(queue, items), Next0)
            /\ log' = Append(log, Invocation(Next0, clock', FALSE, items[Next0].state))
            /\ UNCHANGED items
       ELSE /\ Len(items) < MaxItems
            /\ LET due == add(items[Next0].dueTime, chain.period)
                   st  == items[Next0].state + 1
                   q1  == remove(getNext(queue, items), Next0)
               IN  /\ items' = scheduledItems(items, due, TRUE, st)
                   /\ queue' = scheduledQueue(q1, items, due, TRUE, st)
                   /\ log' = Append(log, Invocation(Next0, clock', TRUE, st))
    /\ ev' = Quiet
    /\ UNCHANGED <<isEnabled, chain, stack, hist>>

\* the loop is left: a return of start (line 105) or advanceTo (lines 143-145)
Leaves ==
    /\ stack' = Pop
    /\ clock' = exitClock(Top.op, clock, Top.time)
    /\ ev' = Event(Top.op, Top.time, "return", Top.stopped)

\* one iteration that finds nothing to invoke (lines 100-103, 139-143)
LoopExit ==
    /\ InLoop
    /\ ~Takes
    /\ queue' = getNext(queue, items)
    /\ isEnabled' = FALSE
    /\ Leaves
    /\ UNCHANGED <<items, chain, log, hist>>

\* the invoked action returns; the loop tests this.isEnabled (lines 103, 142)
ActionReturn ==
    /\ InAction
    /\ IF isEnabled
       THEN /\ stack' = [stack EXCEPT ![Len(stack)].pc = "loop"]
            /\ ev' = Quiet
            /\ UNCHANGED clock
       ELSE Leaves
    /\ UNCHANGED <<isEnabled, queue, items, chain, log, hist>>

\* the invoked action fails: the exception passes through every run loop
ActionThrow ==
    /\ InAction
    /\ stack' = <<>>
    /\ ev' = Event("action", Top.item, "throw", Top.stopped)
    /\ hist' = [hist EXCEPT !.calm = FALSE]
    /\ UNCHANGED <<clock, isEnabled, queue, items, chain, log>>

Next ==
    \/ \E t \in Times : ScheduleAbsoluteWithState(t)
    \/ \E d \in Delays : ScheduleRelativeWithState(d)
    \/ \E i \in 1..MaxItems : Cancel(i)
    \/ \E p \in Periods : SchedulePeriodicWithState(p)
    \/ CancelPeriodic
    \/ Start
    \/ Stop
    \/ \E t \in Times : AdvanceTo(t)
    \/ \E d \in Delays : AdvanceBy(d)
    \/ \E d \in Delays : Sleep(d)
    \/ LoopInvoke
    \/ LoopTick
    \/ LoopExit
    \/ ActionReturn
    \/ ActionThrow

Spec == Init /\ [][Next]_vars


\* ------------------------------------------------------------- properties
InQueue(i) == i \in Range(queue)

WasInvoked(i) == \E k \in DOMAIN log : log[k].item = i

\* the step is a call of a method (not the later return of a run loop)
IsCall(e) == e.out \in {"ok", "noop", "reentrant", "enter", "OutOfRange"}

\* a run loop entered by advanceTo has just returned normally
AdvanceToReturned == ev.op = "advanceTo" /\ ev.out = "return"

\* (due time, scheduling order) of i is not after that of j
KeyNotAfter(i, j) ==
    \/ items[i].dueTime < items[j].dueTime
    \/ items[i].dueTime = items[j].dueTime /\ i <= j

\* C1: whenever a run loop invokes an item, that item is the minimum by
\* (due time, scheduling order) among the non-cancelled items that are in the
\* queue at that moment; so of two non-cancelled items with equal due time the
\* one scheduled first is invoked first.
C1_InvokesMinimum ==
    [][Len(log') > Len(log) =>
          \A j \in Range(queue) :
              ~items[j].cancelled => KeyNotAfter(log'[Len(log')].item, j)]_vars

\* three items scheduled with due times d1 > d2 = d3 have been run by start()
\* in the order second, third, first, and the clock ends at d1
C1_Witness ==
    /\ Len(log) = 3
    /\ log[1].item = 2 /\ log[2].item = 3 /\ log[3].item = 1
    /\ items[2].dueTime = items[3].dueTime
    /\ items[1].dueTime > items[2].dueTime
    /\ ev.op = "start" /\ ev.out = "return"
    /\ clock = items[1].dueTime

\* C2: an item whose cancellation handle was invoked before the item was
\* invoked is never invoked: no invocation is of an item that was cancelled at
\* the moment it was invoked.
C2_CancelledNeverRuns == \A k \in DOMAIN log : ~log[k].cancelled

\* item 1 was cancelled and has been discarded without running, while item 2,
\* scheduled after the cancellation at the same due time, has been invoked
C2_Witness ==
    /\ Len(items) >= 2
    /\ items[1].cancelled /\ ~InQueue(1) /\ ~WasInvoked(1)
    /\ items[2].dueTime = items[1].dueTime
    /\ WasInvoked(2)
    /\ stack = <<>>

\* every invocation saw the clock at its item's due time, in non-decreasing order
ObservedAtDueTimes ==
    \A k \in DOMAIN log :
        /\ log[k].clock = items[log[k].item].dueTime
        /\ k > 1 => log[k - 1].clock <= log[k].clock

\* C3 as stated: after scheduleRelativeWithState calls and start() only, each
\* invoked action observes the clock at its own due time, and the observed
\* clock values are non-decreasing.
C3_Original == hist.relOnly => ObservedAtDueTimes

\* C3 as amended: the same, when no relative time passed was negative.
C3_ObservedAtDueTimes == (hist.relOnly /\ hist.nonNeg) => ObservedAtDueTimes

\* start() has run two items scheduled relatively, at two different clock values
C3_Witness ==
    /\ hist.relOnly /\ hist.nonNeg
    /\ Len(log) >= 2
    /\ log[1].clock < log[2].clock
    /\ ev.op = "start" /\ ev.out = "return"

\* C4 as stated: whenever advanceTo(t) is called with t later than the clock,
\* the clock equals t when the call returns.
C4_Original ==
    (ev.op = "advanceTo" /\ ev.out \in {"return", "reentrant"}) => clock = ev.arg

\* C4 as amended: when advanceTo(t), called with t later than the clock while
\* isEnabled is false, returns normally, the clock equals t.
C4_ClockLandsOnTarget == AdvanceToReturned => clock = ev.arg

\* advanceTo(t), t > 0, has returned on a scheduler that never had any work
C4_Witness ==
    /\ AdvanceToReturned
    /\ items = <<>>
    /\ ev.arg > 0
    /\ clock = ev.arg

\* the call of this step asks for a clock that is not allowed
BackwardRequest ==
    /\ IsCall(ev')
    /\ \/ ev'.op = "advanceTo" /\ ev'.arg < clock
       \/ ev'.op = "advanceBy" /\ clock + ev'.arg < clock
       \/ ev'.op = "sleep" /\ ~(clock + ev'.arg > clock)

\* C5: advanceTo(t) with t before the clock, advanceBy(d) with clock + d before
\* the clock and sleep(d) with clock + d not after the clock fail with
\* OutOfRange, invoke nothing and leave clock, queue and isEnabled as they were.
C5_BackwardRejected ==
    [][BackwardRequest =>
          /\ ev'.out = "OutOfRange"
          /\ UNCHANGED <<clock, queue, items, isEnabled, log>>]_vars

\* sleep was rejected while the scheduler was Running with work pending
C5_Witness ==
    /\ ev.op = "sleep" /\ ev.out = "OutOfRange"
    /\ isEnabled
    /\ queue # <<>>

\* the call of this step asks for the time the clock already shows
SameTimeRequest ==
    /\ IsCall(ev')
    /\ \/ ev'.op = "advanceTo" /\ ev'.arg = clock
       \/ ev'.op = "advanceBy" /\ clock + ev'.arg = clock

\* C6: advanceTo(clock) and advanceBy(0) invoke nothing and leave the clock,
\* isEnabled and the queue unchanged.
C6_SameTimeNoop ==
    [][SameTimeRequest =>
          /\ ev'.out = "noop"
          /\ UNCHANGED <<clock, queue, items, isEnabled, log, stack>>]_vars

\* the no-op happened on an Idle scheduler whose queue holds a due item and a
\* cancelled one
C6_Witness ==
    /\ ev.out = "noop"
    /\ ~isEnabled
    /\ \E i \in Range(queue) : ~items[i].cancelled /\ items[i].dueTime <= clock
    /\ \E j \in Range(queue) : items[j].cancelled

\* C7: sleep(d) with d > 0 sets the clock to clock + d, invokes nothing and
\* leaves the queue and isEnabled unchanged.
C7_SleepMovesClockOnly ==
    [][(ev'.op = "sleep" /\ ev'.arg > 0) =>
          /\ ev'.out = "ok"
          /\ clock' = clock + ev'.arg
          /\ UNCHANGED <<queue, items, isEnabled, log>>]_vars

\* sleep has skipped over the due time of a queued item
C7_Witness ==
    /\ ev.op = "sleep" /\ ev.out = "ok"
    /\ \E i \in Range(queue) :
          /\ ~items[i].cancelled
          /\ clock - ev.arg < items[i].dueTime
          /\ items[i].dueTime <= clock

\* every non-cancelled item due at or before t has been invoked and is queued no more
AllDueRun(t) ==
    \A i \in 1..Len(items) :
        (~items[i].cancelled /\ items[i].dueTime <= t) => (WasInvoked(i) /\ ~InQueue(i))

\* C8 as stated: when advanceTo(t), called Idle with t later than the clock,
\* returns, every non-cancelled item due at or before t has been invoked and
\* none remains in the queue.
C8_Original == AdvanceToReturned => AllDueRun(ev.arg)

\* C8 as amended: the same, when stop() was not called during the call.
C8_RunsAllWorkTillTarget == (AdvanceToReturned /\ ~ev.stopped) => AllDueRun(ev.arg)

\* advanceTo(t) has returned after two invocations, one of an item due at t
C8_Witness ==
    /\ AdvanceToReturned /\ ~ev.stopped
    /\ Len(log) >= 2
    /\ \E k \in DOMAIN log : items[log[k].item].dueTime = ev.arg

\* the invocations of the user's periodic action
TickLog == SelectSeq(log, LAMBDA e : e.tick)

\* C9: after schedulePeriodicWithState(0, p, +1) at clock c0, and as long as
\* no call of sleep, stop or the chain's cancellation handle was made and
\* nothing failed, when advanceTo(t) returns the user's action has been invoked
\* exactly at c0 + k*p for k = 1 .. (t - c0) div p, in that order, the k-th
\* invocation producing state k, and the clock is t.
C9_PeriodicDoesNotDrift ==
    (AdvanceToReturned /\ chain.exists /\ hist.calm) =>
        /\ clock = ev.arg
        /\ Len(TickLog) = (ev.arg - chain.c0) \div chain.period
        /\ \A k \in DOMAIN TickLog :
              /\ TickLog[k].clock = chain.c0 + k * chain.period
              /\ TickLog[k].state = k

\* advanceTo has returned after two periodic invocations
C9_Witness ==
    /\ AdvanceToReturned /\ chain.exists /\ hist.calm
    /\ Len(TickLog) = 2
    /\ TickLog[2].state = 2
    /\ clock = ev.arg

\* C10: the clock never moves backward: every change of the clock is to a
\* value that is not earlier than the previous one.
C10_ClockNeverBackward == [][comparer(clock', clock) >= 0]_vars

\* the call of this step is start(), or advanceTo(t) with t not before the
\* clock, made while isEnabled is true
ReentrantCall ==
    /\ IsCall(ev')
    /\ isEnabled
    /\ \/ ev'.op = "start"
       \/ ev'.op = "advanceTo" /\ ev'.arg >= clock

\* C11: start(), or advanceTo(t) with t not earlier than the clock, called
\* while the scheduler is Running invokes no item and leaves clock, queue and
\* isEnabled unchanged; the loops in progress stay as they are.
C11_ReentrantNoop ==
    [][ReentrantCall =>
          /\ ev'.out \in {"reentrant", "noop"}
          /\ UNCHANGED <<clock, queue, items, isEnabled, log, stack>>]_vars

\* an action has called start() while its loop still has an item to run
C11_Witness ==
    /\ ev.op = "start" /\ ev.out = "reentrant"
    /\ InAction
    /\ \E i \in Range(queue) : ~items[i].cancelled

\* C12: there is never a state in which two start / advanceTo loops are both
\* in progress, one nested inside an action dispatched by the other.
C12_SingleLoop == Len(stack) <= 1

\* C13: isEnabled is false whenever no start / advanceTo call is in progress,
\* however the last one ended, and true whenever a loop is about to dispatch.
C13_EnabledExactlyWhileRunning ==
    /\ stack = <<>> => ~isEnabled
    /\ InLoop => isEnabled

\* this step is the return of a loop during which stop() was called
StoppedReturn == ev'.out = "return" /\ ev'.stopped

\* C14: stop() changes nothing but isEnabled (nothing at all when the
\* scheduler is Idle or already stopped); when a loop stopped from an action
\* returns, every item that was pending at the stop() is still in the queue,
\* un-invoked and in the same order, and start() returns with the clock the
\* action left.
C14_StopEndsLoop ==
    [][/\ ev'.op = "stop" =>
             /\ UNCHANGED <<clock, queue, items, log>>
             /\ ~isEnabled'
             /\ ~isEnabled => UNCHANGED stack
       /\ StoppedReturn =>
             /\ SelectSeq(queue', LAMBDA i : i \in Range(Top.pend)) = Top.pend
             /\ \A i \in Range(Top.pend) : ~\E k \in DOMAIN log' : log'[k].item = i
             /\ ev'.op = "start" => clock' = clock]_vars

\* this step is the normal return of a start() during which stop() was not called
StartCompletes == ev'.op = "start" /\ ev'.out = "return" /\ ~ev'.stopped

\* the due times of the items invoked since the returning loop was entered
DueTimesRun == {items'[log'[k].item].dueTime : k \in (Top.l0 + 1)..Len(log')}

\* the queue is drained, every item that is not cancelled has been invoked
\* and isEnabled is false
Drained ==
    /\ queue' = <<>>
    /\ \A i \in 1..Len(items') :
          ~items'[i].cancelled => \E k \in DOMAIN log' : log'[k].item = i
    /\ ~isEnabled'

\* the clock is the later of its value at the call and the latest due time run
ClockIsLatestDue ==
    /\ clock' \in {Top.c0} \cup DueTimesRun
    /\ \A d \in {Top.c0} \cup DueTimesRun : d <= clock'

\* C15 as stated: when start(), called Idle, returns normally and no action
\* called stop(), the queue is empty (every non-cancelled item was invoked,
\* every cancelled one discarded), isEnabled is false, and the clock is the
\* later of its initial value and the latest due time invoked.
C15_Original == [][StartCompletes => (Drained /\ ClockIsLatestDue)]_vars

\* C15 as amended: the same, the clock part only when no action called sleep()
\* during the run.
C15_StartDrainsQueue ==
    [][StartCompletes => (Drained /\ (~Top.slept => ClockIsLatestDue))]_vars

\* start() has returned after running two items and discarding a cancelled
\* one, with the clock at the later due time
C15_Witness ==
    /\ ev.op = "start" /\ ev.out = "return" /\ ~ev.stopped
    /\ queue = <<>> /\ ~isEnabled
    /\ Len(log) = 2
    /\ \E i \in 1..Len(items) : items[i].cancelled /\ ~WasInvoked(i)
    /\ clock = items[log[2].item].dueTime
    /\ clock > items[log[1].item].dueTime

\* this step is the failure of the running action: the action throws, or a
\* call it makes throws OutOfRange, and the exception leaves the run loops
ActionFails == ev'.out \in {"throw", "OutOfRange"} /\ stack # <<>>

\* the clock that the invocation of item i observed
InvokedAt(i) == log[CHOOSE k \in DOMAIN log : log[k].item = i].clock

\* the failing item is out of the queue, the pending items stay queued in
\* order and no loop is left in progress
FailsWithoutRollback ==
    /\ ~(Top.item \in Range(queue'))
    /\ queue' = queue
    /\ UNCHANGED <<items, log, isEnabled>>
    /\ stack' = <<>>

Invoked == log'[Len(log')].item

\* item i was invoked before the returning loop was entered
RanBefore(i) == \E k \in 1..Top.l0 : log[k].item = i

\* C17: during a call advanceTo(t) on an Idle scheduler no item due strictly
\* later than t is invoked, and every non-cancelled such item is still in the
\* queue when the call returns.
C17_NothingBeyondTarget ==
    [][/\ Len(log') > Len(log) =>
             \A f \in DOMAIN stack :
                 stack[f].op = "advanceTo" => items[Invoked].dueTime <= stack[f].time
       /\ (ev'.out = "return" /\ ev'.op = "advanceTo") =>
             \A i \in 1..Len(items') :
                 (/\ ~items'[i].cancelled
                  /\ items'[i].dueTime > Top.time
                  /\ ~RanBefore(i)) => i \in Range(queue')]_vars

\* this step is the call of the cancellation handle of item i
Cancels(i) == i \in DOMAIN items /\ ~items[i].cancelled /\ items'[i].cancelled

\* item i leaves the queue in this step without being invoked
Discarded(i) ==
    /\ i \in Range(queue) /\ ~(i \in Range(queue'))
    /\ ~(Len(log') > Len(log) /\ log'[Len(log')].item = i)

\* i and every item queued before it are cancelled
InCancelledFront(i) ==
    \A k \in DOMAIN queue :
        (\E m \in DOMAIN queue : k <= m /\ queue[m] = i) => items[queue[k]].cancelled

\* what getNext() does to the queue q: it drops a prefix made of cancelled
\* items only and returns the head of what is left (which it does not remove)
\* or null; that head is the first non-cancelled item of q
GetNextDropsCancelledFront(q) ==
    LET r == getNext(q, items)
        n == Len(q) - Len(r)
    IN  /\ n >= 0
        /\ r = SubSeq(q, n + 1, Len(q))
        /\ \A k \in 1..n : items[q[k]].cancelled
        /\ IF r = <<>> THEN nextOf(r) = null
           ELSE nextOf(r) = r[1] /\ ~items[r[1]].cancelled

\* C18: calling the cancellation handle of a pending item sets that item's
\* flag and leaves the queue's membership and order, the clock and isEnabled
\* unchanged; an item leaves the queue un-invoked only by getNext() in a run
\* loop, when it is cancelled and so is everything queued before it; getNext()
\* removes nothing but cancelled items at the front and returns the first
\* non-cancelled item, or null, without removing it.
C18_CancellationIsLazy ==
    [][/\ \A i \in 1..MaxItems :
             /\ Cancels(i) =>
                   /\ UNCHANGED <<queue, clock, isEnabled, log, stack>>
                   /\ items' = [items EXCEPT ![i].cancelled = TRUE]
             /\ Discarded(i) => (InLoop /\ InCancelledFront(i))
       /\ GetNextDropsCancelledFront(queue)]_vars

\* a run loop has invoked an item while a cancelled item, queued behind one
\* that is not cancelled, is still in the queue
C18_Witness ==
    /\ stack # <<>>
    /\ Len(log) >= 1
    /\ \E k, m \in DOMAIN queue :
          k < m /\ ~items[queue[k]].cancelled /\ items[queue[m]].cancelled

\* how many times item i occurs in the queue / in the log of invocations
TimesQueued(i) == Cardinality({k \in DOMAIN queue : queue[k] = i})

TimesInvoked(i) == Cardinality({k \in DOMAIN log : log[k].item = i})

\* each item is in exactly one stage of its life: queued once, or invoked once
\* and queued no more, or cancelled and discarded; the item whose action is
\* running is already out of the queue
Lifecycle ==
    /\ Range(queue) \subseteq DOMAIN items
    /\ \A i \in DOMAIN items :
          /\ TimesQueued(i) + TimesInvoked(i) <= 1
          /\ (TimesQueued(i) + TimesInvoked(i) = 0) => items[i].cancelled
    /\ \A f \in DOMAIN stack :
          stack[f].pc = "action" => (~InQueue(stack[f].item) /\ WasInvoked(stack[f].item))

\* an item is in the queue right after the step that schedules it, and an
\* item that has left the queue never comes back
EntersOnceLeavesOnce ==
    /\ \A i \in DOMAIN items' : ~(i \in DOMAIN items) => i \in Range(queue')
    /\ \A i \in DOMAIN items : ~InQueue(i) => ~(i \in Range(queue'))

\* C19: over any sequence of operations every scheduled item enters the queue
\* when scheduled and leaves it at most once, either by being invoked (it is
\* out of the queue before its action body runs) or by being discarded after
\* cancellation; its action is invoked at most once, and a non-cancelled item
\* is never dropped from the queue without being invoked.
C19_ItemLifecycle == []Lifecycle /\ [][EntersOnceLeavesOnce]_vars

\* an item's action is running and has opened a nested loop (stop(), then a
\* run-loop call), which has invoked a second item while a third is queued
C19_Witness ==
    /\ Len(stack) = 2
    /\ stack[1].pc = "action"
    /\ Len(log) = 2
    /\ log[1].item = stack[1].item
    /\ \E i \in Range(queue) : ~items[i].cancelled

\* C20: at every invocation of an item by start() or advanceTo() the clock is
\* not earlier than the item's due time, for any schedule (items scheduled in
\* the past, skipped over by sleep() or left behind by stop() included); the
\* loop moves the clock to the due time only when the due time is strictly
\* later than the clock, and leaves it alone otherwise.
C20_NeverRunsEarly ==
    [][Len(log') > Len(log) =>
          LET due == items[Invoked].dueTime
          IN  /\ comparer(clock', due) >= 0
              /\ clock' = IF comparer(due, clock) > 0 THEN due ELSE clock
              /\ log'[Len(log')].clock = clock']_vars

\* an item whose due time was already past (scheduled in the past, or skipped
\* over by sleep()) is running later than its due time, after an item that ran
\* on time
C20_Witness ==
    /\ InAction
    /\ Len(log) >= 2
    /\ log[1].clock = items[log[1].item].dueTime
    /\ log[Len(log)].clock > items[log[Len(log)].item].dueTime
    /\ log[Len(log)].clock = clock

====
